---- MODULE Spec2Model ----
(***************************************************************************)
(* PyOpenVidu: the OpenVidu handle (openvidu.py) and the OpenViduRecording *)
(* objects (openvidurecording.py) as a state machine.                      *)
(*                                                                         *)
(* The server is the environment: every request is answered by an          *)
(* arbitrary status and an arbitrary JSON payload.  Objects live on a      *)
(* heap (a sequence, a reference is an index) because callers keep         *)
(* references to objects that a cache rebuild has dropped from the cache.  *)
(*                                                                         *)
(* Keys of the recording object that are modelled, in the order            *)
(* _update_from_data assigns them: id, name (required, stands for the      *)
(* required keys read before sessionId), resolution (optional, read with   *)
(* .get), sessionId (required), status (required, stands for the keys      *)
(* read after sessionId).                                                  *)
(***************************************************************************)
EXTENDS Integers, Sequences, FiniteSets, TLC

VARIABLES
    pc,                            \* "new" before OpenVidu.__init__ returned, "ready" after
    verify_request_ssl,            \* the argument given to OpenVidu.__init__
    verify,                        \* self._session.verify of the shared transport
    openvidu_sessions,             \* self._openvidu_sessions: session id -> reference (0: no key)
    sessionObjs,                   \* heap of OpenViduSession objects
    openvidu_recordings,           \* self._openvidu_recordings: recording id -> reference (0: no key)
    recObjs,                       \* heap of OpenViduRecording objects
    last_fetch_result,             \* self._last_fetch_result
    last_fetch_result_recordings,  \* self._last_fetch_result_recordings
    last                           \* history: the call made by the last step and its outcome

vars == <<pc, verify_request_ssl, verify, openvidu_sessions, sessionObjs,
          openvidu_recordings, recObjs, last_fetch_result,
          last_fetch_result_recordings, last>>

---------------------------------------------------------------------------
(* Bounds.  A listing has at most two entries (SessionListings,           *)
(* RecordingListings), so the first rebuild may use up the bound.          *)

\* objects (sessions and recordings together) constructed in one behaviour
MaxObjects == 2

---------------------------------------------------------------------------
(* JSON payloads *)

Absent == "<absent>"      \* the key is not in the dict
None == "<None>"          \* Python None
Unset == "<unset>"        \* attribute of an object under construction, never read

SessionIds == {"S1", "S2"}
RecordingIds == {"R1", "R2"}

\* session objects the server may send (recording: a nested property)
sessS1 == [id |-> "S1", recording |-> FALSE]
sessS1rec == [id |-> "S1", recording |-> TRUE]
sessS2 == [id |-> "S2", recording |-> FALSE]
sessNoId == [id |-> Absent, recording |-> FALSE]

\* the bodies of a successful POST sessions
SessionData == {sessS1, sessS2, sessNoId}

\* the bodies of GET sessions ('content')
SessionListings == { <<>>, <<sessS1>>, <<sessS1rec>>, <<sessS1, sessNoId>> }

\* recording objects the server may send
recR1 == [id |-> "R1", name |-> "a", resolution |-> "1280x720", sessionId |-> "S1", status |-> "started"]
recR1stopped == [id |-> "R1", name |-> "b", resolution |-> Absent, sessionId |-> "S1", status |-> "stopped"]
recR2 == [id |-> "R2", name |-> "a", resolution |-> "1280x720", sessionId |-> "S2", status |-> "started"]
recNoSessionId == [id |-> "R1", name |-> "b", resolution |-> "1280x720", sessionId |-> Absent, status |-> "stopped"]

RecordingData == {recR1, recR1stopped, recR2, recNoSessionId}

\* the bodies of a successful POST recordings/start
StartedRecordingData == {recR1, recR2, recNoSessionId}

\* the bodies of a successful GET recordings/{id}: recording objects of that id
RecordingDataOf(id) == {d \in RecordingData : d.id = id}

\* the bodies of GET recordings ('items')
RecordingListings == { <<>>, <<recR1>>, <<recR1stopped>>, <<recR2, recR1>>, <<recR2, recNoSessionId>> }

\* a JSON value compared with != : a dict is never equal to a list
EmptyDict == [kind |-> "dict", items |-> <<>>]
List(items) == [kind |-> "list", items |-> items]

\* The answers of each endpoint: 200, the statuses the REST API documents for
\* it, 500 for any other unsuccessful status, and 0: the transport raised (no
\* connection, timeout) and there is no response
ListingStatuses == {0, 200, 500}
CreateSessionStatuses == {0, 200, 400, 409, 500}
CreateRecordingStatuses == {0, 200, 404, 500}
RecordingFetchStatuses == {0, 200, 400, 404, 500}
RecordingDeleteStatuses == {0, 200, 404, 409, 500, 501}
RecordingStopStatuses == {0, 200, 404, 406, 500, 501}

raise_for_status(status) == status >= 400 /\ status < 600

---------------------------------------------------------------------------
(* The handle as one record, so that operations compose *)

Handle ==
    [ verify |-> verify,
      openvidu_sessions |-> openvidu_sessions,
      sessionObjs |-> sessionObjs,
      openvidu_recordings |-> openvidu_recordings,
      recObjs |-> recObjs,
      last_fetch_result |-> last_fetch_result,
      last_fetch_result_recordings |-> last_fetch_result_recordings ]

Install(h) ==
    /\ verify' = h.verify
    /\ openvidu_sessions' = h.openvidu_sessions
    /\ sessionObjs' = h.sessionObjs
    /\ openvidu_recordings' = h.openvidu_recordings
    /\ recObjs' = h.recObjs
    /\ last_fetch_result' = h.last_fetch_result
    /\ last_fetch_result_recordings' = h.last_fetch_result_recordings

NoSessions == [s \in SessionIds |-> 0]
NoRecordings == [r \in RecordingIds |-> 0]

\* OpenVidu.__init__, lines 45-59
NewHandle(verify_ssl) ==
    [ verify |-> verify_ssl,
      openvidu_sessions |-> NoSessions,
      sessionObjs |-> <<>>,
      openvidu_recordings |-> NoRecordings,
      recObjs |-> <<>>,
      last_fetch_result |-> EmptyDict,
      last_fetch_result_recordings |-> EmptyDict ]

\* what a call did: the handle after it, what it returned or raised, the
\* requests it sent, and the reference it returned (0: none)
Outcome(h, result, requests) ==
    [h |-> h, result |-> result, requests |-> requests, ref |-> 0]

Returned(h, ref, requests) ==
    [h |-> h, result |-> "object", requests |-> requests, ref |-> ref]

---------------------------------------------------------------------------
(* OpenViduRecording, openvidurecording.py *)

BlankData ==
    [id |-> Unset, name |-> Unset, resolution |-> Unset, sessionId |-> Unset, status |-> Unset]

\* the object __init__ receives, before any attribute is assigned
BlankRecording ==
    [ id |-> Unset, name |-> Unset, resolution |-> Unset, session_id |-> Unset,
      status |-> Unset, is_valid |-> FALSE, last_fetch_result |-> BlankData ]

\* _update_from_data: the assignments in source order; data['k'] of an absent
\* key raises KeyError and leaves the assignments made so far in place
update_from_data(obj, data) ==
    IF data.id = Absent THEN [obj |-> obj, raised |-> TRUE] ELSE
    LET o1 == [obj EXCEPT !.id = data.id] IN
    IF data.name = Absent THEN [obj |-> o1, raised |-> TRUE] ELSE
    LET o2 == [o1 EXCEPT !.name = data.name,
                         !.resolution = IF data.resolution = Absent
                                        THEN None ELSE data.resolution] IN
    IF data.sessionId = Absent THEN [obj |-> o2, raised |-> TRUE] ELSE
    LET o3 == [o2 EXCEPT !.session_id = data.sessionId] IN
    IF data.status = Absent THEN [obj |-> o3, raised |-> TRUE] ELSE
    [obj |-> [o3 EXCEPT !.status = data.status, !.is_valid = TRUE], raised |-> FALSE]

\* OpenViduRecording.__init__(session, data): verify_request_ssl is left at its
\* default by both callers.  ref = 0: the constructor raised, no object exists
OpenViduRecording(h, data) ==
    LET h1 == [h EXCEPT !.verify = TRUE]
        u == update_from_data(BlankRecording, data)
    IN  IF u.raised
        THEN [h |-> h1, ref |-> 0]
        ELSE [h |-> [h1 EXCEPT !.recObjs =
                        Append(@, [u.obj EXCEPT !.last_fetch_result = data])],
              ref |-> Len(h.recObjs) + 1]

SetRecording(h, o, obj) == [h EXCEPT !.recObjs[o] = obj]

Invalidate(h, o) == [h EXCEPT !.recObjs[o].is_valid = FALSE]

\* OpenViduRecording.fetch, lines 92-100: the body of a successful response
recording_fetch_update(h, o, new_data) ==
    LET self == h.recObjs[o]
        is_changed == new_data # self.last_fetch_result
        u == update_from_data(self, new_data)
    IN  IF ~is_changed THEN Outcome(h, "false", <<"GET recordings/id">>)
        ELSE IF u.raised
             THEN Outcome(SetRecording(h, o, u.obj), "KeyError", <<"GET recordings/id">>)
        ELSE Outcome(SetRecording(h, o, [u.obj EXCEPT !.last_fetch_result = new_data]),
                     "true", <<"GET recordings/id">>)

\* mutant: a 400 answer is left to raise_for_status
recording_fetch_response_400_generic(h, o, status, new_data) ==
    IF status = 0 THEN Outcome(h, "ConnectionError", <<"GET recordings/id">>)
    ELSE IF status = 404
         THEN Outcome(Invalidate(h, o), "RecordingDoesNotExists", <<"GET recordings/id">>)
    ELSE IF raise_for_status(status) THEN Outcome(h, "HTTPError", <<"GET recordings/id">>)
    ELSE recording_fetch_update(h, o, new_data)

\* OpenViduRecording.fetch, lines 83-100: the request and its answer
recording_fetch_response(h, o, status, new_data) ==
    IF status = 0 THEN Outcome(h, "ConnectionError", <<"GET recordings/id">>)
    ELSE IF status = 404
         THEN Outcome(Invalidate(h, o), "RecordingDoesNotExists", <<"GET recordings/id">>)
    ELSE IF status = 400
         THEN Outcome(Invalidate(h, o), "SessionDoesNotExists", <<"GET recordings/id">>)
    ELSE IF raise_for_status(status) THEN Outcome(h, "HTTPError", <<"GET recordings/id">>)
    ELSE recording_fetch_update(h, o, new_data)

\* mutant: no check of is_valid before the request
recording_fetch_unchecked(h, o, status, new_data) ==
    recording_fetch_response(h, o, status, new_data)

\* OpenViduRecording.fetch
recording_fetch(h, o, status, new_data) ==
    IF ~h.recObjs[o].is_valid THEN Outcome(h, "RecordingDoesNotExists", <<>>)
    ELSE recording_fetch_response(h, o, status, new_data)

\* mutant: a 409 answer invalidates the object, as a 404 does
recording_delete_response_409_invalidates(h, o, status) ==
    IF status = 0 THEN Outcome(h, "ConnectionError", <<"DELETE recordings/id">>)
    ELSE IF status = 404
         THEN Outcome(Invalidate(h, o), "RecordingDoesNotExists", <<"DELETE recordings/id">>)
    ELSE IF status = 409
         THEN Outcome(Invalidate(h, o), "RecordingNotStopped", <<"DELETE recordings/id">>)
    ELSE IF status = 501
         THEN Outcome(Invalidate(h, o), "RecordingNotEnabled", <<"DELETE recordings/id">>)
    ELSE IF raise_for_status(status) THEN Outcome(h, "HTTPError", <<"DELETE recordings/id">>)
    ELSE Outcome(Invalidate(h, o), "true", <<"DELETE recordings/id">>)

\* mutant: a successful delete leaves the object valid
recording_delete_response_keeps_valid(h, o, status) ==
    IF status = 0 THEN Outcome(h, "ConnectionError", <<"DELETE recordings/id">>)
    ELSE IF status = 404
         THEN Outcome(Invalidate(h, o), "RecordingDoesNotExists", <<"DELETE recordings/id">>)
    ELSE IF status = 409
         THEN Outcome(h, "RecordingNotStopped", <<"DELETE recordings/id">>)
    ELSE IF status = 501
         THEN Outcome(Invalidate(h, o), "RecordingNotEnabled", <<"DELETE recordings/id">>)
    ELSE IF raise_for_status(status) THEN Outcome(h, "HTTPError", <<"DELETE recordings/id">>)
    ELSE Outcome(h, "true", <<"DELETE recordings/id">>)

\* OpenViduRecording.delete, lines 106-118: the request and its answer
recording_delete_response(h, o, status) ==
    IF status = 0 THEN Outcome(h, "ConnectionError", <<"DELETE recordings/id">>)
    ELSE IF status = 404
         THEN Outcome(Invalidate(h, o), "RecordingDoesNotExists", <<"DELETE recordings/id">>)
    ELSE IF status = 409
         THEN Outcome(h, "RecordingNotStopped", <<"DELETE recordings/id">>)
    ELSE IF status = 501
         THEN Outcome(Invalidate(h, o), "RecordingNotEnabled", <<"DELETE recordings/id">>)
    ELSE IF raise_for_status(status) THEN Outcome(h, "HTTPError", <<"DELETE recordings/id">>)
    ELSE Outcome(Invalidate(h, o), "true", <<"DELETE recordings/id">>)

\* mutant: no check of is_valid before the request
recording_delete_unchecked(h, o, status) ==
    recording_delete_response(h, o, status)

\* OpenViduRecording.delete
recording_delete(h, o, status) ==
    IF ~h.recObjs[o].is_valid THEN Outcome(h, "RecordingDoesNotExists", <<>>)
    ELSE recording_delete_response(h, o, status)

\* mutant: a 501 answer leaves the object valid, as a 406 does
recording_stop_response_501_keeps_valid(h, o, status) ==
    IF status = 0 THEN Outcome(h, "ConnectionError", <<"POST recordings/stop/id">>)
    ELSE IF status = 404
         THEN Outcome(Invalidate(h, o), "RecordingDoesNotExists", <<"POST recordings/stop/id">>)
    ELSE IF status = 406
         THEN Outcome(h, "RecordingNotStarted", <<"POST recordings/stop/id">>)
    ELSE IF status = 501
         THEN Outcome(h, "RecordingNotEnabled", <<"POST recordings/stop/id">>)
    ELSE IF raise_for_status(status) THEN Outcome(h, "HTTPError", <<"POST recordings/stop/id">>)
    ELSE Outcome(h, "true", <<"POST recordings/stop/id">>)

\* mutant: a successful stop sets the local status
recording_stop_response_sets_status(h, o, status) ==
    IF status = 0 THEN Outcome(h, "ConnectionError", <<"POST recordings/stop/id">>)
    ELSE IF status = 404
         THEN Outcome(Invalidate(h, o), "RecordingDoesNotExists", <<"POST recordings/stop/id">>)
    ELSE IF status = 406
         THEN Outcome(h, "RecordingNotStarted", <<"POST recordings/stop/id">>)
    ELSE IF status = 501
         THEN Outcome(Invalidate(h, o), "RecordingNotEnabled", <<"POST recordings/stop/id">>)
    ELSE IF raise_for_status(status) THEN Outcome(h, "HTTPError", <<"POST recordings/stop/id">>)
    ELSE Outcome([h EXCEPT !.recObjs[o].status = "stopped"], "true",
                 <<"POST recordings/stop/id">>)

\* OpenViduRecording.stop, lines 124-135: the request and its answer
recording_stop_response(h, o, status) ==
    IF status = 0 THEN Outcome(h, "ConnectionError", <<"POST recordings/stop/id">>)
    ELSE IF status = 404
         THEN Outcome(Invalidate(h, o), "RecordingDoesNotExists", <<"POST recordings/stop/id">>)
    ELSE IF status = 406
         THEN Outcome(h, "RecordingNotStarted", <<"POST recordings/stop/id">>)
    ELSE IF status = 501
         THEN Outcome(Invalidate(h, o), "RecordingNotEnabled", <<"POST recordings/stop/id">>)
    ELSE IF raise_for_status(status) THEN Outcome(h, "HTTPError", <<"POST recordings/stop/id">>)
    ELSE Outcome(h, "true", <<"POST recordings/stop/id">>)

\* OpenViduRecording.stop
recording_stop(h, o, status) ==
    IF ~h.recObjs[o].is_valid THEN Outcome(h, "RecordingDoesNotExists", <<>>)
    ELSE recording_stop_response(h, o, status)

---------------------------------------------------------------------------
(* OpenViduSession, openvidusession.py (not among the sources) *)

\* OpenViduSession(session, data): a valid object with the id of data
OpenViduSession(h, data) ==
    IF data.id = Absent
    THEN [h |-> h, ref |-> 0]
    ELSE [h |-> [h EXCEPT !.sessionObjs =
                    Append(@, [id |-> data.id, is_valid |-> TRUE])],
          ref |-> Len(h.sessionObjs) + 1]

---------------------------------------------------------------------------
(* OpenVidu, openvidu.py *)

\* the loop of fetch(), from entry i on
RECURSIVE rebuild_sessions(_, _, _)
rebuild_sessions(h, new_data, i) ==
    IF i > Len(new_data) THEN [h |-> h, raised |-> FALSE]
    ELSE LET session_data == new_data[i] IN
         IF session_data.id = Absent THEN [h |-> h, raised |-> TRUE]
         ELSE LET new == OpenViduSession(h, session_data) IN
              IF new.ref = 0 THEN [h |-> new.h, raised |-> TRUE]
              ELSE rebuild_sessions(
                       [new.h EXCEPT !.openvidu_sessions[session_data.id] = new.ref],
                       new_data, i + 1)

\* mutant: the listing is not remembered
fetch_forgets_listing(h, status, new_data) ==
    IF status = 0 THEN Outcome(h, "ConnectionError", <<"GET sessions">>)
    ELSE IF raise_for_status(status) THEN Outcome(h, "HTTPError", <<"GET sessions">>)
    ELSE LET data_changed == List(new_data) # h.last_fetch_result
             rb == rebuild_sessions([h EXCEPT !.openvidu_sessions = NoSessions],
                                    new_data, 1)
         IN  IF ~data_changed THEN Outcome(h, "false", <<"GET sessions">>)
             ELSE IF rb.raised THEN Outcome(rb.h, "KeyError", <<"GET sessions">>)
             ELSE Outcome(rb.h, "true", <<"GET sessions">>)

\* mutant: an unsuccessful status is not raised, the call reports no change
fetch_swallows_failure(h, status, new_data) ==
    IF status = 0 THEN Outcome(h, "ConnectionError", <<"GET sessions">>)
    ELSE IF raise_for_status(status) THEN Outcome(h, "false", <<"GET sessions">>)
    ELSE LET data_changed == List(new_data) # h.last_fetch_result
             h1 == [h EXCEPT !.last_fetch_result = List(new_data)]
             rb == rebuild_sessions([h1 EXCEPT !.openvidu_sessions = NoSessions],
                                    new_data, 1)
         IN  IF ~data_changed THEN Outcome(h1, "false", <<"GET sessions">>)
             ELSE IF rb.raised THEN Outcome(rb.h, "KeyError", <<"GET sessions">>)
             ELSE Outcome(rb.h, "true", <<"GET sessions">>)

\* OpenVidu.fetch
fetch(h, status, new_data) ==
    IF status = 0 THEN Outcome(h, "ConnectionError", <<"GET sessions">>)
    ELSE IF raise_for_status(status) THEN Outcome(h, "HTTPError", <<"GET sessions">>)
    ELSE LET data_changed == List(new_data) # h.last_fetch_result
             h1 == [h EXCEPT !.last_fetch_result = List(new_data)]
             rb == rebuild_sessions([h1 EXCEPT !.openvidu_sessions = NoSessions],
                                    new_data, 1)
         IN  IF ~data_changed THEN Outcome(h1, "false", <<"GET sessions">>)
             ELSE IF rb.raised THEN Outcome(rb.h, "KeyError", <<"GET sessions">>)
             ELSE Outcome(rb.h, "true", <<"GET sessions">>)

\* mutant: the lookup does not test is_valid
get_session_ignores_validity(h, session_id) ==
    h.openvidu_sessions[session_id]

\* OpenVidu.get_session: the reference, 0 for OpenViduSessionDoesNotExistsError
get_session(h, session_id) ==
    IF h.openvidu_sessions[session_id] = 0 THEN 0
    ELSE IF ~h.sessionObjs[h.openvidu_sessions[session_id]].is_valid THEN 0
    ELSE h.openvidu_sessions[session_id]

\* mutant: a 400 answer is left to raise_for_status
create_session_400_generic(h, status, data) ==
    IF status = 0 THEN Outcome(h, "ConnectionError", <<"POST sessions">>)
    ELSE IF status = 409 THEN Outcome(h, "SessionExists", <<"POST sessions">>)
    ELSE IF raise_for_status(status) THEN Outcome(h, "HTTPError", <<"POST sessions">>)
    ELSE LET new_session == OpenViduSession(h, data) IN
         IF new_session.ref = 0 THEN Outcome(new_session.h, "KeyError", <<"POST sessions">>)
         ELSE Returned([new_session.h EXCEPT !.openvidu_sessions[data.id] = new_session.ref],
                       new_session.ref, <<"POST sessions">>)

\* OpenVidu.create_session, from the request on
create_session(h, status, data) ==
    IF status = 0 THEN Outcome(h, "ConnectionError", <<"POST sessions">>)
    ELSE IF status = 409 THEN Outcome(h, "SessionExists", <<"POST sessions">>)
    ELSE IF status = 400 THEN Outcome(h, "ValueError", <<"POST sessions">>)
    ELSE IF raise_for_status(status) THEN Outcome(h, "HTTPError", <<"POST sessions">>)
    ELSE LET new_session == OpenViduSession(h, data) IN
         IF new_session.ref = 0 THEN Outcome(new_session.h, "KeyError", <<"POST sessions">>)
         ELSE Returned([new_session.h EXCEPT !.openvidu_sessions[data.id] = new_session.ref],
                       new_session.ref, <<"POST sessions">>)

\* OpenVidu.sessions
sessions(h) ==
    { h.openvidu_sessions[s] : s \in {x \in SessionIds :
          /\ h.openvidu_sessions[x] # 0
          /\ h.sessionObjs[h.openvidu_sessions[x]].is_valid} }

\* OpenVidu.session_count
session_count(h) == Cardinality(sessions(h))

\* mutant: a 404 answer does not mark the session invalid
create_recording_404_keeps_session(h, session_id, status, data) ==
    LET session == get_session(h, session_id) IN
    IF session = 0 THEN Outcome(h, "SessionDoesNotExists", <<>>)
    ELSE IF status = 0 THEN Outcome(h, "ConnectionError", <<"POST recordings/start">>)
    ELSE IF status = 404
         THEN Outcome(h, "SessionDoesNotExists", <<"POST recordings/start">>)
    ELSE IF raise_for_status(status) THEN Outcome(h, "HTTPError", <<"POST recordings/start">>)
    ELSE LET new_recording == OpenViduRecording(h, data) IN
         IF new_recording.ref = 0
         THEN Outcome(new_recording.h, "KeyError", <<"POST recordings/start">>)
         ELSE Returned([new_recording.h EXCEPT
                            !.openvidu_recordings[data.id] = new_recording.ref],
                       new_recording.ref, <<"POST recordings/start">>)

\* OpenVidu.create_recording
create_recording(h, session_id, status, data) ==
    LET session == get_session(h, session_id) IN
    IF session = 0 THEN Outcome(h, "SessionDoesNotExists", <<>>)
    ELSE IF status = 0 THEN Outcome(h, "ConnectionError", <<"POST recordings/start">>)
    ELSE IF status = 404
         THEN Outcome([h EXCEPT !.sessionObjs[session].is_valid = FALSE],
                      "SessionDoesNotExists", <<"POST recordings/start">>)
    ELSE IF raise_for_status(status) THEN Outcome(h, "HTTPError", <<"POST recordings/start">>)
    ELSE LET new_recording == OpenViduRecording(h, data) IN
         IF new_recording.ref = 0
         THEN Outcome(new_recording.h, "KeyError", <<"POST recordings/start">>)
         ELSE Returned([new_recording.h EXCEPT
                            !.openvidu_recordings[data.id] = new_recording.ref],
                       new_recording.ref, <<"POST recordings/start">>)

\* the loop of fetch_recordings(), from entry i on
RECURSIVE rebuild_recordings(_, _, _)
rebuild_recordings(h, new_data, i) ==
    IF i > Len(new_data) THEN [h |-> h, raised |-> FALSE]
    ELSE LET recording_data == new_data[i] IN
         IF recording_data.id = Absent THEN [h |-> h, raised |-> TRUE]
         ELSE LET new == OpenViduRecording(h, recording_data) IN
              IF new.ref = 0 THEN [h |-> new.h, raised |-> TRUE]
              ELSE rebuild_recordings(
                       [new.h EXCEPT !.openvidu_recordings[recording_data.id] = new.ref],
                       new_data, i + 1)

\* mutant: the rebuild adds to the cache without emptying it first
fetch_recordings_keeps_entries(h, status, new_data) ==
    IF status = 0 THEN Outcome(h, "ConnectionError", <<"GET recordings">>)
    ELSE IF raise_for_status(status) THEN Outcome(h, "HTTPError", <<"GET recordings">>)
    ELSE LET data_changed == List(new_data) # h.last_fetch_result_recordings
             h1 == [h EXCEPT !.last_fetch_result_recordings = List(new_data)]
             rb == rebuild_recordings(h1, new_data, 1)
         IN  IF ~data_changed THEN Outcome(h1, "false", <<"GET recordings">>)
             ELSE IF rb.raised THEN Outcome(rb.h, "KeyError", <<"GET recordings">>)
             ELSE Outcome(rb.h, "true", <<"GET recordings">>)

\* OpenVidu.fetch_recordings
fetch_recordings(h, status, new_data) ==
    IF status = 0 THEN Outcome(h, "ConnectionError", <<"GET recordings">>)
    ELSE IF raise_for_status(status) THEN Outcome(h, "HTTPError", <<"GET recordings">>)
    ELSE LET data_changed == List(new_data) # h.last_fetch_result_recordings
             h1 == [h EXCEPT !.last_fetch_result_recordings = List(new_data)]
             rb == rebuild_recordings([h1 EXCEPT !.openvidu_recordings = NoRecordings],
                                      new_data, 1)
         IN  IF ~data_changed THEN Outcome(h1, "false", <<"GET recordings">>)
             ELSE IF rb.raised THEN Outcome(rb.h, "KeyError", <<"GET recordings">>)
             ELSE Outcome(rb.h, "true", <<"GET recordings">>)

\* OpenVidu.recordings
recordings(h) ==
    { h.openvidu_recordings[r] : r \in {x \in RecordingIds :
          /\ h.openvidu_recordings[x] # 0
          /\ h.recObjs[h.openvidu_recordings[x]].is_valid} }

\* OpenVidu.get_recording: the reference, 0 for OpenViduRecordingDoesNotExistsError
get_recording(h, recording_id) ==
    IF h.openvidu_recordings[recording_id] = 0 THEN 0
    ELSE IF ~h.recObjs[h.openvidu_recordings[recording_id]].is_valid THEN 0
    ELSE h.openvidu_recordings[recording_id]

\* mutant: only the recordings of a session that get_session finds
get_session_recordings_of_valid_session(h, session_id) ==
    IF get_session(h, session_id) = 0 THEN {}
    ELSE { h.openvidu_recordings[r] : r \in {x \in RecordingIds :
               /\ h.openvidu_recordings[x] # 0
               /\ h.recObjs[h.openvidu_recordings[x]].session_id = session_id
               /\ h.recObjs[h.openvidu_recordings[x]].is_valid} }

\* OpenVidu.get_session_recordings
get_session_recordings(h, session_id) ==
    { h.openvidu_recordings[r] : r \in {x \in RecordingIds :
          /\ h.openvidu_recordings[x] # 0
          /\ h.recObjs[h.openvidu_recordings[x]].session_id = session_id
          /\ h.recObjs[h.openvidu_recordings[x]].is_valid} }

Raised(out) == out.result \notin {"true", "false", "object"}

\* OpenVidu.__init__: the eager fetches (an exception leaves no handle)
openvidu_init(verify_ssl, initial_fetch, recording_enabled, s1, d1, s2, d2) ==
    LET h0 == NewHandle(verify_ssl)
        f == fetch(h0, s1, d1)
        g == fetch_recordings(f.h, s2, d2)
    IN  IF ~initial_fetch THEN Returned(h0, 0, <<>>)
        ELSE IF Raised(f) THEN f
        ELSE IF ~recording_enabled THEN Returned(f.h, 0, f.requests)
        ELSE IF Raised(g) THEN Outcome(g.h, g.result, f.requests \o g.requests)
        ELSE Returned(g.h, 0, f.requests \o g.requests)

---------------------------------------------------------------------------
(* The calls a client makes, each answered by the server in one step *)

NoOptions == [initial_fetch |-> FALSE, recording_enabled |-> FALSE]

\* the payload of a response: only a 200 response carries one
Payloads(status, D) == IF status = 200 THEN D ELSE {<<>>}

\* objects that may still be constructed
Room == MaxObjects - (Len(sessionObjs) + Len(recObjs))

\* the call repeats the previous one: same operation, same object, and the
\* server answered both with 200 and the same payload
Repeats(op, obj, status, payload) ==
    /\ last.op = op
    /\ last.obj = obj
    /\ last.status = 200
    /\ status = 200
    /\ last.payload = payload

Call(op, obj, arg, status, payload, out) ==
    [ op |-> op, obj |-> obj, arg |-> arg,
      status |-> IF out.requests = <<>> THEN 0 ELSE status,
      payload |-> IF out.requests = <<>> THEN <<>> ELSE payload,
      result |-> out.result, requests |-> out.requests, ref |-> out.ref,
      repeat |-> Repeats(op, obj, status, payload), options |-> NoOptions ]

\* Before OpenVidu(...) is called.  The caller asks for verify_request_ssl =
\* False: with the default, True, no operation can change the transport's
\* verify, and no operation reads it.
Init ==
    /\ pc = "new"
    /\ verify_request_ssl = FALSE
    /\ verify = verify_request_ssl
    /\ openvidu_sessions = NoSessions
    /\ sessionObjs = <<>>
    /\ openvidu_recordings = NoRecordings
    /\ recObjs = <<>>
    /\ last_fetch_result = EmptyDict
    /\ last_fetch_result_recordings = EmptyDict
    /\ last = [ op |-> "none", obj |-> 0, arg |-> "", status |-> 0, payload |-> <<>>,
                result |-> "", requests |-> <<>>, ref |-> 0, repeat |-> FALSE,
                options |-> NoOptions ]

\* OpenVidu(url, secret, initial_fetch, recording_enabled, timeout, verify_request_ssl)
Construct ==
    /\ pc = "new"
    /\ \E initial_fetch \in BOOLEAN, recording_enabled \in BOOLEAN :
       \E s1 \in (IF initial_fetch THEN ListingStatuses ELSE {0}),
          s2 \in (IF initial_fetch /\ recording_enabled THEN ListingStatuses ELSE {0}) :
       \E d1 \in Payloads(s1, SessionListings),
          d2 \in Payloads(s2, RecordingListings) :
          /\ Len(d1) + Len(d2) <= MaxObjects
          /\ LET out == openvidu_init(verify_request_ssl, initial_fetch,
                                      recording_enabled, s1, d1, s2, d2)
             IN  /\ IF Raised(out)
                    THEN /\ pc' = "new"
                         /\ Install(Handle)
                    ELSE /\ pc' = "ready"
                         /\ Install(out.h)
                 /\ last' = [Call("init", 0, "", s1, <<>>, out) EXCEPT
                             !.repeat = FALSE,
                             !.options = [initial_fetch |-> initial_fetch,
                                          recording_enabled |-> recording_enabled]]
    /\ UNCHANGED verify_request_ssl

Fetch ==
    /\ pc = "ready"
    /\ \E status \in ListingStatuses :
       \E new_data \in Payloads(status, SessionListings) :
          /\ Len(new_data) <= Room
          /\ LET out == fetch(Handle, status, new_data)
             IN  /\ Install(out.h)
                 /\ last' = Call("fetch", 0, "", status, new_data, out)
    /\ UNCHANGED <<pc, verify_request_ssl>>

CreateSession ==
    /\ pc = "ready"
    /\ Room >= 1
    /\ \E status \in CreateSessionStatuses :
       \E data \in Payloads(status, SessionData) :
          LET out == create_session(Handle, status, data)
          IN  /\ Install(out.h)
              /\ last' = Call("create_session", 0, "", status, data, out)
    /\ UNCHANGED <<pc, verify_request_ssl>>

CreateRecording ==
    /\ pc = "ready"
    /\ Room >= 1
    /\ \E session_id \in SessionIds, status \in CreateRecordingStatuses :
       \E data \in Payloads(status, StartedRecordingData) :
          LET out == create_recording(Handle, session_id, status, data)
          IN  /\ Install(out.h)
              /\ last' = Call("create_recording", 0, session_id, status, data, out)
    /\ UNCHANGED <<pc, verify_request_ssl>>

FetchRecordings ==
    /\ pc = "ready"
    /\ \E status \in ListingStatuses :
       \E new_data \in Payloads(status, RecordingListings) :
          /\ Len(new_data) <= Room
          /\ LET out == fetch_recordings(Handle, status, new_data)
             IN  /\ Install(out.h)
                 /\ last' = Call("fetch_recordings", 0, "", status, new_data, out)
    /\ UNCHANGED <<pc, verify_request_ssl>>

RecordingFetch ==
    /\ pc = "ready"
    /\ \E o \in 1..Len(recObjs), status \in RecordingFetchStatuses :
       \E new_data \in Payloads(status, RecordingDataOf(recObjs[o].id)) :
          LET out == recording_fetch(Handle, o, status, new_data)
          IN  /\ Install(out.h)
              /\ last' = Call("recording_fetch", o, "", status, new_data, out)
    /\ UNCHANGED <<pc, verify_request_ssl>>

RecordingDelete ==
    /\ pc = "ready"
    /\ \E o \in 1..Len(recObjs), status \in RecordingDeleteStatuses :
          LET out == recording_delete(Handle, o, status)
          IN  /\ Install(out.h)
              /\ last' = Call("recording_delete", o, "", status, <<>>, out)
    /\ UNCHANGED <<pc, verify_request_ssl>>

RecordingStop ==
    /\ pc = "ready"
    /\ \E o \in 1..Len(recObjs), status \in RecordingStopStatuses :
          LET out == recording_stop(Handle, o, status)
          IN  /\ Install(out.h)
              /\ last' = Call("recording_stop", o, "", status, <<>>, out)
    /\ UNCHANGED <<pc, verify_request_ssl>>

Next ==
    \/ Construct
    \/ Fetch
    \/ CreateSession
    \/ CreateRecording
    \/ FetchRecordings
    \/ RecordingFetch
    \/ RecordingDelete
    \/ RecordingStop

Spec == Init /\ [][Next]_vars

---------------------------------------------------------------------------
(* A handle that found a session and its recording on the server: the life  *)
(* of the recordings of that session.  Sessions are not created or listed   *)
(* again, so the bound is on the Recording objects alone.                   *)

\* the handle OpenVidu(url, secret, recording_enabled=True) returns when the
\* server lists session S1 and its recording R1
ListedHandle ==
    openvidu_init(FALSE, TRUE, TRUE, 200, <<sessS1>>, 200, <<recR1>>)

InitListed ==
    /\ pc = "ready"
    /\ verify_request_ssl = FALSE
    /\ verify = ListedHandle.h.verify
    /\ openvidu_sessions = ListedHandle.h.openvidu_sessions
    /\ sessionObjs = ListedHandle.h.sessionObjs
    /\ openvidu_recordings = ListedHandle.h.openvidu_recordings
    /\ recObjs = ListedHandle.h.recObjs
    /\ last_fetch_result = ListedHandle.h.last_fetch_result
    /\ last_fetch_result_recordings = ListedHandle.h.last_fetch_result_recordings
    /\ last = [ op |-> "init", obj |-> 0, arg |-> "", status |-> 200, payload |-> <<>>,
                result |-> ListedHandle.result, requests |-> ListedHandle.requests,
                ref |-> 0, repeat |-> FALSE,
                options |-> [initial_fetch |-> TRUE, recording_enabled |-> TRUE] ]

\* OpenVidu.create_recording, while fewer than MaxObjects Recordings exist
StartRecording ==
    /\ pc = "ready"
    /\ Len(recObjs) < MaxObjects
    /\ \E session_id \in SessionIds, status \in CreateRecordingStatuses :
       \E data \in Payloads(status, StartedRecordingData) :
          LET out == create_recording(Handle, session_id, status, data)
          IN  /\ Install(out.h)
              /\ last' = Call("create_recording", 0, session_id, status, data, out)
    /\ UNCHANGED <<pc, verify_request_ssl>>

\* OpenVidu.fetch_recordings, while it leaves at most MaxObjects Recordings
RefetchRecordings ==
    /\ pc = "ready"
    /\ \E status \in ListingStatuses :
       \E new_data \in Payloads(status, RecordingListings) :
          /\ Len(recObjs) + Len(new_data) <= MaxObjects
          /\ LET out == fetch_recordings(Handle, status, new_data)
             IN  /\ Install(out.h)
                 /\ last' = Call("fetch_recordings", 0, "", status, new_data, out)
    /\ UNCHANGED <<pc, verify_request_ssl>>

NextListed ==
    \/ StartRecording
    \/ RefetchRecordings
    \/ RecordingFetch
    \/ RecordingDelete
    \/ RecordingStop

SpecListed == InitListed /\ [][NextListed]_vars

---------------------------------------------------------------------------
(* Vocabulary of the properties *)

RecordingOps == {"recording_fetch", "recording_delete", "recording_stop"}

\* the calls that work on sessions / on recordings only
SessionSideOps == {"fetch", "create_session"}
RecordingSideOps ==
    {"fetch_recordings", "recording_fetch", "recording_delete", "recording_stop"}

\* the call of the last step returned (true, false or an object)
ReturnedNormally(call) == call.result \in {"true", "false", "object"}

\* the keys of a cache
Keys(cache) == {k \in DOMAIN cache : cache[k] # 0}

\* the objects a cache holds
Cached(cache) == {cache[k] : k \in Keys(cache)}

\* the ids of the entries of a listing
IdsOf(listing) == {listing[i].id : i \in 1..Len(listing)}

\* the attributes of a Recording other than is_valid
Fields(obj) == [obj EXCEPT !.is_valid = TRUE]

\* a session object / recording object with every key the client requires
IsSessionObject(d) == d.id # Absent
IsRecordingObject(d) ==
    d.id # Absent /\ d.name # Absent /\ d.sessionId # Absent /\ d.status # Absent

\* an unsuccessful status that the operation does not map to an error of its own
OtherFailure(status, mapped) == raise_for_status(status) /\ status \notin mapped

\* the step changed the session cache or a Session / the recording cache or a
\* Recording
SessionsChanged ==
    openvidu_sessions' # openvidu_sessions \/ sessionObjs' # sessionObjs
RecordingsChanged ==
    openvidu_recordings' # openvidu_recordings \/ recObjs' # recObjs

---------------------------------------------------------------------------
\* C1: a Recording object whose is_valid is false never has is_valid true
\* again, whatever calls are made on it or on the handle and whatever the
\* server answers (the heap only grows, so a reference names the same object
\* in both states of a step).
C1_InvalidNeverValidAgain ==
    [][\A o \in 1..Len(recObjs) :
          ~recObjs[o].is_valid => /\ o <= Len(recObjs')
                                  /\ ~recObjs'[o].is_valid]_vars

\* an invalidated Recording stays invalid while fetch_recordings() rebuilt
\* the cache with a new, valid object for the same id
C1_Witness ==
    /\ last.op = "fetch_recordings"
    /\ last.result = "true"
    /\ \E o \in 1..Len(recObjs) :
          /\ ~recObjs[o].is_valid
          /\ openvidu_recordings[recObjs[o].id] \notin {0, o}
          /\ recObjs[openvidu_recordings[recObjs[o].id]].is_valid

---------------------------------------------------------------------------
\* C2: fetch(), stop() and delete() on a Recording whose is_valid is false
\* raise RecordingDoesNotExists, send no request and change no field of any
\* object; create_recording(session_id) for a session that is not cached, or
\* cached and invalid, raises SessionDoesNotExists and sends no request.
C2_InvalidFailsFast ==
    [][/\ ( /\ last'.op \in RecordingOps
            /\ ~recObjs[last'.obj].is_valid )
          => /\ last'.result = "RecordingDoesNotExists"
             /\ last'.requests = <<>>
             /\ recObjs' = recObjs
       /\ ( /\ last'.op = "create_recording"
            /\ \/ openvidu_sessions[last'.arg] = 0
               \/ ~sessionObjs[openvidu_sessions[last'.arg]].is_valid )
          => /\ last'.result = "SessionDoesNotExists"
             /\ last'.requests = <<>>]_vars

\* delete() was called on an invalid Recording and failed without a request
C2_Witness ==
    /\ last.op = "recording_delete"
    /\ ~recObjs[last.obj].is_valid
    /\ last.result = "RecordingDoesNotExists"
    /\ last.requests = <<>>

---------------------------------------------------------------------------
\* C3: OpenVidu.fetch() and OpenVidu.fetch_recordings(), answered with a
\* listing of session / recording objects: if the listing differs from the
\* last-seen one the call returns true, the keys of the cache are exactly the
\* ids of the listing, every cached object was constructed by this call and
\* is valid, and no object of the previous cache is in it; if the listing
\* equals the last-seen one the call returns false and the cache mapping is
\* the same.
C3_ChangeDetection ==
    [][/\ ( /\ last'.op = "fetch"
            /\ last'.status = 200
            /\ \A i \in 1..Len(last'.payload) : IsSessionObject(last'.payload[i]) )
          => IF List(last'.payload) # last_fetch_result
             THEN /\ last'.result = "true"
                  /\ Keys(openvidu_sessions') = IdsOf(last'.payload)
                  /\ \A o \in Cached(openvidu_sessions') :
                        /\ o > Len(sessionObjs)
                        /\ sessionObjs'[o].is_valid
                  /\ Cached(openvidu_sessions') \cap Cached(openvidu_sessions) = {}
             ELSE /\ last'.result = "false"
                  /\ openvidu_sessions' = openvidu_sessions
       /\ ( /\ last'.op = "fetch_recordings"
            /\ last'.status = 200
            /\ \A i \in 1..Len(last'.payload) : IsRecordingObject(last'.payload[i]) )
          => IF List(last'.payload) # last_fetch_result_recordings
             THEN /\ last'.result = "true"
                  /\ Keys(openvidu_recordings') = IdsOf(last'.payload)
                  /\ \A o \in Cached(openvidu_recordings') :
                        /\ o > Len(recObjs)
                        /\ recObjs'[o].is_valid
                  /\ Cached(openvidu_recordings') \cap Cached(openvidu_recordings) = {}
             ELSE /\ last'.result = "false"
                  /\ openvidu_recordings' = openvidu_recordings]_vars

\* fetch_recordings() returned true and replaced an object of the old cache
\* by a new one
C3_Witness ==
    /\ last.op = "fetch_recordings"
    /\ last.result = "true"
    /\ Keys(openvidu_recordings) # {}
    /\ \E o \in 1..Len(recObjs) : o \notin Cached(openvidu_recordings)

---------------------------------------------------------------------------
\* C4: when fetch(), fetch_recordings() or Recording.fetch() returned and the
\* same call is made again at once and answered with the same payload, the
\* second call returns false and leaves caches, objects, fields, validity
\* flags and last-seen snapshots as the first call left them.
C4_SecondFetchChangesNothing ==
    [][( /\ last'.repeat
         /\ last'.op \in {"fetch", "fetch_recordings", "recording_fetch"}
         /\ ReturnedNormally(last) )
       => /\ last'.result = "false"
          /\ Handle' = Handle]_vars

\* Recording.fetch() was answered twice with the same payload and returned
\* false the second time
C4_Witness ==
    /\ last.repeat
    /\ last.op = "recording_fetch"
    /\ last.result = "false"
    /\ recObjs[last.obj].last_fetch_result = last.payload

---------------------------------------------------------------------------
\* C5: after a fetch() that returned, get_session(id) succeeds only for the
\* ids of the listing that fetch received; after a fetch_recordings() that
\* returned, get_recording(id) succeeds only for the ids of its listing.
C5_LookupFollowsListing ==
    /\ ( last.op = "fetch" /\ ReturnedNormally(last) )
       => \A id \in SessionIds :
             get_session(Handle, id) # 0 => id \in IdsOf(last.payload)
    /\ ( last.op = "fetch_recordings" /\ ReturnedNormally(last) )
       => \A id \in RecordingIds :
             get_recording(Handle, id) # 0 => id \in IdsOf(last.payload)

---------------------------------------------------------------------------
\* C6: a call of fetch(), fetch_recordings() or Recording.fetch(), whether it
\* returns or raises, leaves either the state it found (cache, objects and
\* last-seen snapshot; fields and snapshot of the Recording) or the state
\* built from the whole new payload; the snapshot never is the new payload
\* while the cache is not the one built from all of it.
C6_AllOrNothing ==
    [][/\ last'.op = "fetch"
          => \/ /\ openvidu_sessions' = openvidu_sessions
                /\ sessionObjs' = sessionObjs
                /\ last_fetch_result' = last_fetch_result
             \/ /\ last_fetch_result' = List(last'.payload)
                /\ Keys(openvidu_sessions') = IdsOf(last'.payload)
                /\ \A o \in Cached(openvidu_sessions') : sessionObjs'[o].is_valid
       /\ last'.op = "fetch_recordings"
          => \/ /\ openvidu_recordings' = openvidu_recordings
                /\ recObjs' = recObjs
                /\ last_fetch_result_recordings' = last_fetch_result_recordings
             \/ /\ last_fetch_result_recordings' = List(last'.payload)
                /\ Keys(openvidu_recordings') = IdsOf(last'.payload)
                /\ \A o \in Cached(openvidu_recordings') : recObjs'[o].is_valid
       /\ last'.op = "recording_fetch"
          => \/ Fields(recObjs'[last'.obj]) = Fields(recObjs[last'.obj])
             \/ /\ last'.status = 200
                /\ recObjs'[last'.obj].last_fetch_result = last'.payload
                /\ recObjs'[last'.obj] =
                      update_from_data(recObjs[last'.obj], last'.payload).obj
                /\ ~update_from_data(recObjs[last'.obj], last'.payload).raised]_vars

---------------------------------------------------------------------------
\* C7: create_recording(session_id) for a cached, valid session.  A 404
\* answer raises SessionDoesNotExists, makes the Session invalid (get_session
\* fails, session_count is one less) and leaves the recordings cache alone;
\* another unsuccessful status raises the generic error and changes neither
\* the sessions nor the recordings; a recording object in a 200 answer gives
\* a new valid Recording, cached under its id and returned by get_recording.
C7_CreateRecording ==
    [][( /\ last'.op = "create_recording"
         /\ openvidu_sessions[last'.arg] # 0
         /\ sessionObjs[openvidu_sessions[last'.arg]].is_valid )
       => /\ last'.status = 404
             => /\ last'.result = "SessionDoesNotExists"
                /\ ~sessionObjs'[openvidu_sessions[last'.arg]].is_valid
                /\ get_session(Handle', last'.arg) = 0
                /\ session_count(Handle') = session_count(Handle) - 1
                /\ openvidu_recordings' = openvidu_recordings
                /\ recObjs' = recObjs
          /\ OtherFailure(last'.status, {404})
             => /\ last'.result = "HTTPError"
                /\ sessionObjs' = sessionObjs
                /\ openvidu_sessions' = openvidu_sessions
                /\ openvidu_recordings' = openvidu_recordings
                /\ recObjs' = recObjs
          /\ ( last'.status = 200 /\ IsRecordingObject(last'.payload) )
             => /\ last'.result = "object"
                /\ last'.ref = Len(recObjs) + 1
                /\ recObjs'[last'.ref].is_valid
                /\ recObjs'[last'.ref].id = last'.payload.id
                /\ openvidu_recordings'[last'.payload.id] = last'.ref
                /\ get_recording(Handle', last'.payload.id) = last'.ref]_vars

\* create_recording() was answered 404 and the cached session is now invalid
C7_Witness ==
    /\ last.op = "create_recording"
    /\ last.status = 404
    /\ last.result = "SessionDoesNotExists"
    /\ openvidu_sessions[last.arg] # 0
    /\ ~sessionObjs[openvidu_sessions[last.arg]].is_valid

---------------------------------------------------------------------------
\* C8: delete() on a valid Recording: 404 raises RecordingDoesNotExists and
\* clears is_valid; 409 raises RecordingNotStopped and keeps is_valid; 501
\* raises RecordingNotEnabled and clears is_valid; another unsuccessful
\* status raises the generic error and keeps is_valid; no failing call
\* changes another field.
C8_DeleteStatusMapping ==
    [][( /\ last'.op = "recording_delete"
         /\ recObjs[last'.obj].is_valid )
       => /\ last'.status = 404
             => /\ last'.result = "RecordingDoesNotExists"
                /\ ~recObjs'[last'.obj].is_valid
          /\ last'.status = 409
             => /\ last'.result = "RecordingNotStopped"
                /\ recObjs'[last'.obj].is_valid
          /\ last'.status = 501
             => /\ last'.result = "RecordingNotEnabled"
                /\ ~recObjs'[last'.obj].is_valid
          /\ OtherFailure(last'.status, {404, 409, 501})
             => /\ last'.result = "HTTPError"
                /\ recObjs'[last'.obj].is_valid
          /\ ~ReturnedNormally(last')
             => Fields(recObjs'[last'.obj]) = Fields(recObjs[last'.obj])]_vars

\* delete() was answered 409: RecordingNotStopped, the object still valid
C8_Witness ==
    /\ last.op = "recording_delete"
    /\ last.status = 409
    /\ last.result = "RecordingNotStopped"
    /\ recObjs[last.obj].is_valid

---------------------------------------------------------------------------
\* C9: stop() on a valid Recording: 404 raises RecordingDoesNotExists and
\* clears is_valid; 406 raises RecordingNotStarted and keeps is_valid; 501
\* raises RecordingNotEnabled and clears is_valid; another unsuccessful
\* status raises the generic error and keeps is_valid.
C9_StopStatusMapping ==
    [][( /\ last'.op = "recording_stop"
         /\ recObjs[last'.obj].is_valid )
       => /\ last'.status = 404
             => /\ last'.result = "RecordingDoesNotExists"
                /\ ~recObjs'[last'.obj].is_valid
          /\ last'.status = 406
             => /\ last'.result = "RecordingNotStarted"
                /\ recObjs'[last'.obj].is_valid
          /\ last'.status = 501
             => /\ last'.result = "RecordingNotEnabled"
                /\ ~recObjs'[last'.obj].is_valid
          /\ OtherFailure(last'.status, {404, 406, 501})
             => /\ last'.result = "HTTPError"
                /\ recObjs'[last'.obj].is_valid]_vars

\* stop() was answered 501: RecordingNotEnabled, the object now invalid
C9_Witness ==
    /\ last.op = "recording_stop"
    /\ last.status = 501
    /\ last.result = "RecordingNotEnabled"
    /\ ~recObjs[last.obj].is_valid

---------------------------------------------------------------------------
\* C10: fetch() on a valid Recording: 404 clears is_valid and raises
\* RecordingDoesNotExists; 400 clears is_valid and raises
\* SessionDoesNotExists; in both the other fields and the last-seen snapshot
\* stay; another unsuccessful status raises the generic error and leaves the
\* object, is_valid included, as it was.
C10_FetchStatusMapping ==
    [][( /\ last'.op = "recording_fetch"
         /\ recObjs[last'.obj].is_valid )
       => /\ last'.status = 404
             => /\ last'.result = "RecordingDoesNotExists"
                /\ ~recObjs'[last'.obj].is_valid
                /\ Fields(recObjs'[last'.obj]) = Fields(recObjs[last'.obj])
          /\ last'.status = 400
             => /\ last'.result = "SessionDoesNotExists"
                /\ ~recObjs'[last'.obj].is_valid
                /\ Fields(recObjs'[last'.obj]) = Fields(recObjs[last'.obj])
          /\ OtherFailure(last'.status, {400, 404})
             => /\ last'.result = "HTTPError"
                /\ recObjs'[last'.obj] = recObjs[last'.obj]]_vars

\* fetch() was answered 400: SessionDoesNotExists, the object now invalid
C10_Witness ==
    /\ last.op = "recording_fetch"
    /\ last.status = 400
    /\ last.result = "SessionDoesNotExists"
    /\ ~recObjs[last.obj].is_valid

---------------------------------------------------------------------------
---------------------------------------------------------------------------
\* C12: in every reachable state get_session(id) succeeds iff a cached Session
\* with is_valid true has that id, sessions is the set of cached Sessions with
\* is_valid true and session_count is its size; get_recording(id) succeeds iff
\* a cached Recording with is_valid true has that id, recordings is the set of
\* cached Recordings with is_valid true, and get_session_recordings(sid) is
\* the set of those whose session_id is sid.
C12_Accessors ==
    /\ \A id \in SessionIds :
          /\ get_session(Handle, id) # 0
             <=> \E o \in Cached(openvidu_sessions) :
                    sessionObjs[o].id = id /\ sessionObjs[o].is_valid
          /\ get_session(Handle, id) # 0
             => /\ get_session(Handle, id) \in Cached(openvidu_sessions)
                /\ sessionObjs[get_session(Handle, id)].id = id
    /\ sessions(Handle) = {o \in Cached(openvidu_sessions) : sessionObjs[o].is_valid}
    /\ session_count(Handle) = Cardinality(sessions(Handle))
    /\ \A id \in RecordingIds :
          /\ get_recording(Handle, id) # 0
             <=> \E o \in Cached(openvidu_recordings) :
                    recObjs[o].id = id /\ recObjs[o].is_valid
          /\ get_recording(Handle, id) # 0
             => /\ get_recording(Handle, id) \in Cached(openvidu_recordings)
                /\ recObjs[get_recording(Handle, id)].id = id
    /\ recordings(Handle) = {o \in Cached(openvidu_recordings) : recObjs[o].is_valid}
    /\ \A sid \in SessionIds :
          get_session_recordings(Handle, sid) =
             {o \in Cached(openvidu_recordings) :
                 recObjs[o].is_valid /\ recObjs[o].session_id = sid}

\* a Session and a Recording are cached and invalid: both lookups fail, and
\* neither object is among sessions / recordings
C12_Witness ==
    /\ \E id \in Keys(openvidu_sessions) :
          /\ ~sessionObjs[openvidu_sessions[id]].is_valid
          /\ get_session(Handle, id) = 0
    /\ \E id \in Keys(openvidu_recordings) :
          /\ ~recObjs[openvidu_recordings[id]].is_valid
          /\ get_recording(Handle, id) = 0
    /\ sessions(Handle) = {}
    /\ recordings(Handle) = {}

---------------------------------------------------------------------------
\* C13: when the request of OpenVidu.fetch() or OpenVidu.fetch_recordings()
\* fails (no response, or an unsuccessful status) the call raises that
\* failure, and both caches, both last-seen listings and every object are as
\* before, so that for every listing the next fetch() / fetch_recordings()
\* finds it changed exactly if it would have found it changed before the
\* failed call.
C13_FailedFetchChangesNothing ==
    [][( /\ last'.op \in {"fetch", "fetch_recordings"}
         /\ last'.requests # <<>>
         /\ last'.status # 200 )
       => /\ last'.result = IF last'.status = 0 THEN "ConnectionError" ELSE "HTTPError"
          /\ Handle' = Handle
          /\ \A d \in SessionListings :
                List(d) # last_fetch_result' <=> List(d) # last_fetch_result
          /\ \A d \in RecordingListings :
                List(d) # last_fetch_result_recordings'
                <=> List(d) # last_fetch_result_recordings]_vars

\* fetch() failed with an unsuccessful status while a session was cached, and
\* a fetch() answered with the empty listing would still report a change
C13_Witness ==
    /\ last.op = "fetch"
    /\ last.status = 500
    /\ last.result = "HTTPError"
    /\ Keys(openvidu_sessions) # {}
    /\ fetch(Handle, 200, <<>>).result = "true"

---------------------------------------------------------------------------
\* C14: when OpenVidu(...) returned, it sent GET sessions exactly if
\* initial_fetch was true and GET recordings exactly if recording_enabled was
\* true, each whatever the other option; for an option that was false the
\* cache of that collection is empty.
C14_EagerFetchesIndependent ==
    ( last.op = "init" /\ ReturnedNormally(last) )
    => /\ (\E i \in 1..Len(last.requests) : last.requests[i] = "GET sessions")
          <=> last.options.initial_fetch
       /\ (\E i \in 1..Len(last.requests) : last.requests[i] = "GET recordings")
          <=> last.options.recording_enabled
       /\ ~last.options.initial_fetch => Keys(openvidu_sessions) = {}
       /\ ~last.options.recording_enabled => Keys(openvidu_recordings) = {}

---------------------------------------------------------------------------
\* C15: OpenVidu.fetch(), create_session() and a create_recording() answered
\* 404 leave the recordings cache, its last-seen listing and every Recording
\* as they were; OpenVidu.fetch_recordings() and fetch(), stop() and delete()
\* of a Recording leave the session cache, its last-seen listing and every
\* Session as they were; and after every step that changed a cache or an
\* object, for a session id that get_session does not find,
\* get_session_recordings still is the set of valid cached Recordings with
\* that session_id (before the first such step both caches are empty).
C15_RecordingsIndependentOfSessions ==
    [][/\ ( \/ last'.op \in SessionSideOps
            \/ last'.op = "create_recording" /\ last'.status = 404 )
          => /\ openvidu_recordings' = openvidu_recordings
             /\ recObjs' = recObjs
             /\ last_fetch_result_recordings' = last_fetch_result_recordings
       /\ last'.op \in RecordingSideOps
          => /\ openvidu_sessions' = openvidu_sessions
             /\ sessionObjs' = sessionObjs
             /\ last_fetch_result' = last_fetch_result
       /\ ( SessionsChanged \/ RecordingsChanged )
          => \A sid \in SessionIds :
                get_session(Handle', sid) = 0
                => get_session_recordings(Handle', sid) =
                      {o \in Cached(openvidu_recordings') :
                          recObjs'[o].is_valid /\ recObjs'[o].session_id = sid}]_vars

\* fetch_recordings() cached a valid Recording of a session that is cached
\* and invalid; the Session stayed as it was
C15_Witness ==
    /\ last.op = "fetch_recordings"
    /\ last.result = "true"
    /\ \E sid \in Keys(openvidu_sessions) :
          /\ ~sessionObjs[openvidu_sessions[sid]].is_valid
          /\ get_session_recordings(Handle, sid) # {}

---------------------------------------------------------------------------
\* C17: a stop() that the server answers with success returns true and
\* changes nothing locally: every field of the Recording, is_valid and its
\* last-seen snapshot are as before (and so is the rest of the handle); a
\* fetch() after it returns true exactly for a recording object that differs
\* from the snapshot.
C17_StopChangesNothing ==
    [][( /\ last'.op = "recording_stop"
         /\ last'.status = 200 )
       => /\ last'.result = "true"
          /\ recObjs'[last'.obj] = recObjs[last'.obj]
          /\ recObjs'[last'.obj].is_valid
          /\ Handle' = Handle
          /\ \A d \in RecordingDataOf(recObjs[last'.obj].id) :
                IsRecordingObject(d)
                => recording_fetch(Handle', last'.obj, 200, d).result =
                      IF d # recObjs[last'.obj].last_fetch_result
                      THEN "true" ELSE "false"]_vars

\* stop() returned true, the local status still is "started", and a fetch()
\* answered with the stopped recording would return true
C17_Witness ==
    /\ last.op = "recording_stop"
    /\ last.result = "true"
    /\ recObjs[last.obj].status = "started"
    /\ recObjs[last.obj].is_valid
    /\ recR1stopped \in RecordingDataOf(recObjs[last.obj].id)
    /\ recording_fetch(Handle, last.obj, 200, recR1stopped).result = "true"

---------------------------------------------------------------------------
\* C18: in every reachable state the verify setting of the shared transport
\* is the verify_request_ssl value that was given to OpenVidu(...).
C18_TransportPolicyKept ==
    verify = verify_request_ssl

---------------------------------------------------------------------------
====
